---------------------------- MODULE Spec2Model ----------------------------
(***************************************************************************)
(* prometheus-to-cloudwatch: the Bridge of prometheus_to_cloudwatch.go.    *)
(* One Bridge scrapes a Prometheus endpoint on every tick of its ticker,   *)
(* turns each sample into one or two CloudWatch MetricDatum values and     *)
(* sends them to PutMetricData in batches.                                 *)
(*                                                                         *)
(* Strings.  Label names, label values, dimension values and units are     *)
(* TLA+ strings.  sort.Strings orders by bytes; NameOrder lists the label  *)
(* names of the model in that byte order.  Metric names and glob patterns  *)
(* are sequences of one-character strings, so that a glob is matched       *)
(* character by character.                                                 *)
(*                                                                         *)
(* Floats.  A float64 sample value is NaN, an infinity, a zero or a power  *)
(* of two +/-2^exp; the two thresholds of validValue are powers of two, so *)
(* every comparison validValue makes is decided by the exponent.           *)
(***************************************************************************)
EXTENDS Integers, Sequences, FiniteSets, TLC

VARIABLES
    cfg,        \* the Bridge's configuration fields, set by NewBridge
    pc,         \* where the main goroutine is: "main" (parsing the flags),
                \* "server" (in startHttpServer), in Run: "idle" (in select),
                \* "fetch" (ranging over mfChan), "publish", "stopped" (Run
                \* returned), "panicked", or "exited" (os.Exit of log.Fatal)
    ctxDone,    \* the context passed to Run has been cancelled
    vec,        \* the samples ExtractSamples returned for the cycle in progress
    i,          \* index in vec of the next sample of the range loop
    data,       \* the batch being filled ([]*cloudwatch.MetricDatum)
    count,      \* publishMetricsToCloudWatch's count
    flushed,    \* the PutMetricData requests sent in this cycle: [batch, ok]
    summary,    \* what Run logged for the last finished cycle: [count, err]
    ticks,      \* the ticks waiting in the ticker's channel ticker.C
    fetcher,    \* the goroutine fetchMetricFamilies: "none", "connecting",
                \* "parsing" (in parseResponse) or "closed" (returned)
    body,       \* the metric families of the response not yet parsed
    mfChan,     \* the metric families in the channel mfChan
    metricFamilies, \* Run's slice of the families received
    fatal,      \* which log.Fatal ended the process, "none" if none did
    args        \* the values of the flags -exclude_dimensions_for_metrics and
                \* -include_dimensions_for_metrics

fetchVars == <<fetcher, body, mfChan, metricFamilies>>

vars == <<cfg, pc, ctxDone, vec, i, data, count, flushed, summary,
          ticks, fetchVars, fatal, args>>

---------------------------------------------------------------------------
(* Bounds of the model *)

\* ordinary labels a sample can carry (beyond __name__ and the control labels)
MaxLabels == 11
\* entries of Config.AdditionalDimensions
MaxAdditional == 11
\* length of the leading run of a scrape's samples
MaxPrefix == 2
\* length of the trailing run of a scrape's samples
MaxRun == 11
\* metric families in the response of one scrape
MaxFamilies == 2
\* samples of the largest metric family
MaxFamilySamples == 6

---------------------------------------------------------------------------
(* Program constants *)

batchSize == 10
cwHighResLabel == "__cw_high_res"
cwUnitLabel == "__cw_unit"
MetricNameLabel == "__name__"
\* the literal 10 of appendDatum's call getDimensions(metric, 10-len(...), b)
maxDimensions == 10
\* valueTooSmall = 2^valueTooSmallExp, valueTooLarge = 2^valueTooLargeExp
valueTooSmallExp == -260
valueTooLargeExp == 260
\* the capacity of mfChan: make(chan *dto.MetricFamily, 1024)
mfChanCap == 1024
\* the capacity of the channel of a time.Ticker
tickerCap == 1

---------------------------------------------------------------------------
(* Strings and their byte order *)

\* The label names of the model, in the byte order sort.Strings uses.
NameOrder ==
    << "__cw_high_res", "__cw_unit", "__name__",
       "dim01", "dim02", "dim03", "dim04", "dim05", "dim06", "dim07",
       "dim08", "dim09", "dim10", "dim11", "dim12", "dim13",
       "env", "host",
       "label1", "label10", "label11", "label12", "label13", "label2",
       "label3", "label4", "label5", "label6", "label7", "label8", "label9",
       "region", "vpc" >>

Range(seq) == {seq[j] : j \in 1..Len(seq)}

\* sort.Strings on a slice holding the names of set S once each: the names
\* of S in byte order
SortStrings(S) == SelectSeq(NameOrder, LAMBDA n : n \in S)

\* s[:n] for 0 <= n <= len(s)
Take(seq, n) == SubSeq(seq, 1, n)

\* glob.Glob.Match for patterns of literal characters and "*" (any run of
\* characters, the empty one included)
RECURSIVE GlobMatch(_, _)
GlobMatch(pattern, str) ==
    IF pattern = <<>> THEN str = <<>>
    ELSE IF Head(pattern) = "*"
         THEN \/ GlobMatch(Tail(pattern), str)
              \/ str # <<>> /\ GlobMatch(pattern, Tail(str))
         ELSE /\ str # <<>>
              /\ Head(str) = Head(pattern)
              /\ GlobMatch(Tail(pattern), Tail(str))

---------------------------------------------------------------------------
(* Filter *)

anyPatternMatches(patterns, s) ==
    \E j \in 1..Len(patterns) : GlobMatch(patterns[j], s)

\* the include list is consulted before the exclude list
shouldIgnoreMetric_includeFirst(b, metricName) ==
    IF Len(b.includeMetrics) # 0 /\ anyPatternMatches(b.includeMetrics, metricName)
    THEN FALSE
    ELSE IF anyPatternMatches(b.excludeMetrics, metricName) THEN TRUE
    ELSE Len(b.includeMetrics) # 0

\* a name matching no include pattern is let through
shouldIgnoreMetric_noWhitelist(b, metricName) ==
    anyPatternMatches(b.excludeMetrics, metricName)

shouldIgnoreMetric(b, metricName) ==
    IF anyPatternMatches(b.excludeMetrics, metricName) THEN TRUE
    ELSE IF Len(b.includeMetrics) = 0 THEN FALSE
    ELSE IF anyPatternMatches(b.includeMetrics, metricName) THEN FALSE
    ELSE TRUE

\* A StringSet is the set of its keys; a nil StringSet is NilSet, which
\* differs from the empty set.
NilSet == [isNil |-> TRUE, keys |-> {}]
StringSet(keys) == [isNil |-> FALSE, keys |-> keys]

\* the last rule that matches decides
RECURSIVE getMatchingSet_lastMatch(_, _)
getMatchingSet_lastMatch(matcherSets, str) ==
    IF matcherSets = <<>> THEN NilSet
    ELSE LET n == Len(matcherSets)
         IN  IF GlobMatch(matcherSets[n].Matcher, str)
             THEN StringSet(matcherSets[n].Set)
             ELSE getMatchingSet_lastMatch(SubSeq(matcherSets, 1, n - 1), str)

RECURSIVE getMatchingSet(_, _)
getMatchingSet(matcherSets, str) ==
    IF matcherSets = <<>> THEN NilSet
    ELSE IF GlobMatch(Head(matcherSets).Matcher, str)
         THEN StringSet(Head(matcherSets).Set)
         ELSE getMatchingSet(Tail(matcherSets), str)

\* a label of the include-set is kept even if the exclude-set names it
shouldIncludeDimension_includeWins(dimName, includeSet, excludeSet) ==
    IF dimName = MetricNameLabel \/ dimName = cwHighResLabel \/ dimName = cwUnitLabel
    THEN FALSE
    ELSE IF ~ includeSet.isNil /\ dimName \in includeSet.keys THEN TRUE
    ELSE IF ~ excludeSet.isNil /\ dimName \in excludeSet.keys THEN FALSE
    ELSE includeSet.isNil

shouldIncludeDimension(dimName, includeSet, excludeSet) ==
    IF dimName = MetricNameLabel \/ dimName = cwHighResLabel \/ dimName = cwUnitLabel
    THEN FALSE
    ELSE IF ~ excludeSet.isNil /\ dimName \in excludeSet.keys THEN FALSE
    ELSE IF includeSet.isNil THEN TRUE
    ELSE dimName \in includeSet.keys

---------------------------------------------------------------------------
(* Transformer *)

\* model.Metric is a map: a function from the label names present to values
getName(m) == IF MetricNameLabel \in DOMAIN m THEN m[MetricNameLabel] ELSE <<>>

IsInf(v) == v.kind = "inf"
IsNaN(v) == v.kind = "nan"

\* the comparisons of the magnitude are strict
validValue_strict(v) ==
    IF IsInf(v) THEN FALSE
    ELSE IF IsNaN(v) THEN FALSE
    ELSE IF v.kind = "zero" THEN TRUE
    ELSE ~ (v.exp < valueTooSmallExp \/ v.exp > valueTooLargeExp)

validValue(v) ==
    IF IsInf(v) THEN FALSE
    ELSE IF IsNaN(v) THEN FALSE
    ELSE IF v.kind = "zero" THEN TRUE
    \* a = |v| = 2^exp;  a <= valueTooSmall || a >= valueTooLarge
    ELSE ~ (v.exp <= valueTooSmallExp \/ v.exp >= valueTooLargeExp)

Dimension(name, value) == [Name |-> name, Value |-> value]

\* The loop of getDimensions over the sorted names: one Dimension for every
\* name with a non-empty value, and its counterpart with the replacement.
RECURSIVE dimsOf(_, _)
dimsOf(m, names) ==
    IF names = <<>> THEN <<>>
    ELSE LET name == Head(names)
             val  == m[name]
         IN  IF name # "" /\ val # ""
             THEN <<Dimension(name, val)>> \o dimsOf(m, Tail(names))
             ELSE dimsOf(m, Tail(names))

RECURSIVE replacedDimsOf(_, _, _)
replacedDimsOf(m, names, b) ==
    IF names = <<>> THEN <<>>
    ELSE LET name == Head(names)
             val  == m[name]
             rest == replacedDimsOf(m, Tail(names), b)
         IN  IF name # "" /\ val # "" /\ DOMAIN b.replaceDimensions # {}
             THEN IF name \in DOMAIN b.replaceDimensions
                  THEN <<Dimension(name, b.replaceDimensions[name])>> \o rest
                  ELSE <<Dimension(name, val)>> \o rest
             ELSE rest

\* getDimensions returns (dims, replacedDims).  dims[:num] with num < 0 is a
\* run-time panic (slice bounds out of range), which the field panic records.
getDimensions(m, num, b) ==
    IF Cardinality(DOMAIN m) = 0
    THEN [dims |-> <<>>, replacedDims |-> <<>>, panic |-> FALSE]
    ELSE IF Cardinality(DOMAIN m) = 1 /\ MetricNameLabel \in DOMAIN m
    THEN [dims |-> <<>>, replacedDims |-> <<>>, panic |-> FALSE]
    ELSE LET metricName == getName(m)
             includeSet == getMatchingSet(b.includeDimensionsForMetrics, metricName)
             excludeSet == getMatchingSet(b.excludeDimensionsForMetrics, metricName)
             names == SortStrings({n \in DOMAIN m :
                                     shouldIncludeDimension(n, includeSet, excludeSet)})
             dims == dimsOf(m, names)
             replacedDims == replacedDimsOf(m, names, b)
         IN  IF (Len(dims) > num \/ Len(replacedDims) > num) /\ num < 0
             THEN [dims |-> <<>>, replacedDims |-> <<>>, panic |-> TRUE]
             ELSE [dims |-> IF Len(dims) > num THEN Take(dims, num) ELSE dims,
                   replacedDims |-> IF Len(replacedDims) > num
                                    THEN Take(replacedDims, num) ELSE replacedDims,
                   panic |-> FALSE]

\* "for k, v := range b.additionalDimensions": Go leaves the order of a map
\* range unspecified and the runtime starts each range at a random slot.
\* MapOrders is the set of key orders one range can produce: the rotations
\* of the slot order, taken here to be the sorted keys (the orders the gc
\* runtime of go.mod's Go version produces for a map of one bucket).
Rotate(seq, r) == [j \in 1..Len(seq) |-> seq[((j - 1 + r) % Len(seq)) + 1]]

MapOrders(m) ==
    IF DOMAIN m = {} THEN {<<>>}
    ELSE LET keys == SortStrings(DOMAIN m)
         IN  {Rotate(keys, r) : r \in 0..(Len(keys) - 1)}

\* order is the key order this range over the map takes
getAdditionalDimensions(b, order) ==
    [j \in 1..Len(order) |->
        Dimension(order[j], b.additionalDimensions[order[j]])]

getResolution(m) ==
    IF cwHighResLabel \in DOMAIN m THEN 1 ELSE 60

\* a sample without the __cw_unit label gets the empty unit
getUnit_emptyDefault(m) ==
    IF cwUnitLabel \in DOMAIN m THEN m[cwUnitLabel] ELSE ""

getUnit(m) ==
    IF cwUnitLabel \in DOMAIN m THEN m[cwUnitLabel] ELSE "None"

MetricDatum(name, value, timestamp, dimensions, resolution, unit) ==
    [MetricName |-> name, Value |-> value, Timestamp |-> timestamp,
     Dimensions |-> dimensions, StorageResolution |-> resolution, Unit |-> unit]

\* appendDatum returns the grown slice; panic records the panic of getDimensions.
\* order1 and order2 are the key orders of its two getAdditionalDimensions calls.
appendDatum(d, name, s, b, order1, order2) ==
    LET metric == s.Metric
        value  == s.Value
    IN  IF Cardinality(DOMAIN metric) = 0 THEN [data |-> d, panic |-> FALSE]
        ELSE IF ~ validValue(value) THEN [data |-> d, panic |-> FALSE]
        ELSE LET g == getDimensions(metric,
                          maxDimensions - Cardinality(DOMAIN b.additionalDimensions), b)
                 datum == MetricDatum(name, value, s.Timestamp,
                              g.dims \o getAdditionalDimensions(b, order1),
                              getResolution(metric), getUnit(metric))
                 replacedDimensionDatum ==
                          MetricDatum(name, value, s.Timestamp,
                              g.replacedDims \o getAdditionalDimensions(b, order2),
                              getResolution(metric), getUnit(metric))
             IN  IF g.panic THEN [data |-> d, panic |-> TRUE]
                 ELSE IF Len(g.replacedDims) > 0
                 THEN [data |-> Append(Append(d, datum), replacedDimensionDatum),
                       panic |-> FALSE]
                 ELSE [data |-> Append(d, datum), panic |-> FALSE]

---------------------------------------------------------------------------
(* Inputs: metric names, patterns, configurations, samples, scrapes *)

\* metric names, spelled character by character
up   == <<"u", "p">>
h_a  == <<"h", "_", "a">>
h_b  == <<"h", "_", "b">>
t_a  == <<"t", "_", "a">>
MetricNames == {up, h_a, h_b, t_a}

\* glob patterns
pat_up     == <<"u", "p">>
pat_h_star == <<"h", "_", "*">>
pat_star_a == <<"*", "_", "a">>
pat_t_star == <<"t", "*">>

EmptyMap == [n \in {} |-> ""]

\* Config.AdditionalDimensions with its first k entries; "host" is also the
\* name of a label
AdditionalNames ==
    << "env", "region", "host", "dim01", "dim02", "dim03", "dim04", "dim05",
       "dim06", "dim07", "dim08", "dim09", "dim10", "dim11" >>

Additional(k) == [n \in {AdditionalNames[j] : j \in 1..k} |-> "prod"]

ReplaceHost == [n \in {"host", "label10"} |-> "ALL"]

\* The fields NewBridge copies from Config, and the ForceHighRes field main sets.
BaseConfig ==
    [ additionalDimensions        |-> EmptyMap,
      replaceDimensions           |-> EmptyMap,
      includeMetrics              |-> <<>>,
      excludeMetrics              |-> <<>>,
      includeDimensionsForMetrics |-> <<>>,
      excludeDimensionsForMetrics |-> <<>>,
      forceHighRes                |-> FALSE ]

ExcludeLists == { <<>>, <<pat_h_star>>, <<pat_up, pat_t_star>> }
IncludeLists == { <<>>, <<pat_h_star>>, <<pat_up>>, <<pat_star_a, pat_up>> }

MatcherWithStringSet(matcher, set) == [Matcher |-> matcher, Set |-> set]

IncludeDimensionRules ==
    { <<>>,
      << MatcherWithStringSet(pat_h_star, {"host", "label1", "__cw_unit"}) >>,
      << MatcherWithStringSet(pat_star_a, {"label2"}),
         MatcherWithStringSet(pat_h_star, {"host"}) >> }

ExcludeDimensionRules ==
    { <<>>,
      << MatcherWithStringSet(pat_h_star, {"host", "label1"}) >>,
      << MatcherWithStringSet(pat_up, {"label2"}),
         MatcherWithStringSet(pat_star_a, {"label3"}) >> }

FilterConfigs ==
    { [BaseConfig EXCEPT !.excludeMetrics = ex, !.includeMetrics = inc,
                         !.replaceDimensions = rep] :
        ex \in ExcludeLists, inc \in IncludeLists, rep \in {EmptyMap} }

\* entries of AdditionalDimensions combined with a substitution map
MaxReplacedAdditional == 3

AdditionalConfigs ==
    { [BaseConfig EXCEPT !.additionalDimensions = Additional(k)] :
        k \in 0..MaxAdditional }
    \cup
    { [BaseConfig EXCEPT !.additionalDimensions = Additional(k),
                         !.replaceDimensions = ReplaceHost] :
        k \in 0..MaxReplacedAdditional }

RuleConfigs ==
    { [BaseConfig EXCEPT !.includeDimensionsForMetrics = inc,
                         !.excludeDimensionsForMetrics = ex,
                         !.replaceDimensions = rep] :
        inc \in IncludeDimensionRules, ex \in ExcludeDimensionRules,
        rep \in {EmptyMap, ReplaceHost} }

\* a global extra dimension with the name of a label (-additional_dimension
\* host=prod)
CollisionConfigs ==
    { [BaseConfig EXCEPT !.additionalDimensions = [n \in {"host"} |-> "prod"],
                         !.replaceDimensions = rep] :
        rep \in {EmptyMap, ReplaceHost} }

ForceConfigs ==
    { [BaseConfig EXCEPT !.forceHighRes = f, !.replaceDimensions = rep] :
        f \in BOOLEAN, rep \in {EmptyMap, ReplaceHost} }

\* the configurations of the transformer's specification
Configs ==
    FilterConfigs \cup AdditionalConfigs \cup RuleConfigs \cup CollisionConfigs
    \cup ForceConfigs

\* the configurations of the Run loop's specification
CoreConfigs ==
    { [BaseConfig EXCEPT !.excludeMetrics = ex, !.replaceDimensions = rep] :
        ex \in { <<>>, <<pat_t_star>> }, rep \in {EmptyMap, ReplaceHost} }

\* float64 values: the special values, the zeros, and +/-2^exp around the
\* two thresholds
Exponents == { valueTooSmallExp - 1, valueTooSmallExp, valueTooSmallExp + 1, 0,
               valueTooLargeExp - 1, valueTooLargeExp, valueTooLargeExp + 1 }

Float(kind, neg, exp) == [kind |-> kind, neg |-> neg, exp |-> exp]

Values ==
    { Float("nan", FALSE, 0) }
    \cup { Float("inf", neg, 0) : neg \in BOOLEAN }
    \cup { Float("zero", neg, 0) : neg \in BOOLEAN }
    \cup { Float("pow2", neg, e) : neg \in BOOLEAN, e \in Exponents }

One == Float("pow2", FALSE, 0)

\* the labels a sample carries besides __name__ and the control labels, in
\* the order they are added to a sample of the model
OrdinaryLabels ==
    << "label1", "label2", "label3", "label4", "label5", "label6", "label7",
       "label8", "label9", "label10", "label11", "label12", "label13" >>

Sample(metric, value, timestamp) ==
    [Metric |-> metric, Value |-> value, Timestamp |-> timestamp]

\* a metric of the given name with labels name |-> value
Metric(name, labels) ==
    [n \in {MetricNameLabel} \cup DOMAIN labels |->
        IF n = MetricNameLabel THEN name ELSE labels[n]]

\* the first n ordinary labels, the e-th of them (if e > 0) with an empty value
Labels(n, e) ==
    [l \in {OrdinaryLabels[j] : j \in 1..n} |->
        IF e > 0 /\ l = OrdinaryLabels[e] THEN "" ELSE "v"]

HostLabels == [l \in {"host"} |-> "h1"]

LabelSamples ==
    { Sample(Metric(h_a, Labels(n, e)), One, 1) : n \in 0..MaxLabels, e \in 0..MaxLabels }

\* the control labels, present or not, with an empty or a non-empty value
ControlLabelMaps ==
    { [l \in S |-> IF l = cwUnitLabel THEN u ELSE IF l = cwHighResLabel THEN r ELSE "h1"] :
        S \in SUBSET {cwHighResLabel, cwUnitLabel, "host"},
        u \in {"", "Bytes"}, r \in {"", "true"} }

ControlSamples == { Sample(Metric(h_a, m), One, 1) : m \in ControlLabelMaps }

ValueSamples == { Sample(Metric(h_a, HostLabels), v, 2) : v \in Values }

NameSamples ==
    { Sample(Metric(name, labels), One, 1) :
        name \in MetricNames, labels \in {EmptyMap, HostLabels} }

\* the samples of the transformer's specification
Samples == LabelSamples \cup ControlSamples \cup ValueSamples \cup NameSamples

\* the samples of the Run loop's specification
sUp   == Sample(Metric(up, EmptyMap), One, 1)
sHost == Sample(Metric(h_a, HostLabels), One, 2)
sInf  == Sample(Metric(h_b, HostLabels), Float("inf", FALSE, 0), 2)
sTom  == Sample(Metric(t_a, HostLabels), One, 1)
CoreSamples == {sUp, sHost, sInf, sTom}

Repeat(s, n) == [j \in 1..n |-> s]

\* a scrape: up to MaxPrefix samples a followed by up to MaxRun samples b
Scrapes ==
    { Repeat(a, p) \o Repeat(b, q) :
        a \in CoreSamples, b \in CoreSamples, p \in 0..MaxPrefix, q \in 0..MaxRun }

SingleScrapes == { <<s>> : s \in Samples }

\* a dto.MetricFamily is the sequence of the samples ExtractSamples gives
\* for it
Families == { <<sUp>>, Repeat(sHost, MaxFamilySamples), <<sTom>> }

\* the response of a scrape: the metric families it holds, in order
Bodies == UNION { [1..n -> Families] : n \in 0..MaxFamilies }

\* expfmt.ExtractSamples without an error: the samples of the families, in
\* the order of the families
RECURSIVE ExtractSamples(_)
ExtractSamples(mfs) ==
    IF mfs = <<>> THEN <<>> ELSE Head(mfs) \o ExtractSamples(Tail(mfs))

\* the log.Fatal calls of fetchMetricFamilies and decodeContent: the client
\* certificate or key cannot be loaded, the request cannot be created, the
\* request fails, the status is not 200
ScrapeFailures == {"certificate", "request", "transport", "status"}

\* a scrape in which the same sample occurs twice
PairScrapes == { <<s, s>> : s \in NameSamples }

---------------------------------------------------------------------------
(* main: the flags of the per-metric dimension rules *)

\* Flag values are strings of characters.  A dimension name of a rule is a
\* string of characters too; Spelling gives the characters of the label
\* names the rules of the model mention, and NamesOf the label names a set
\* of parsed strings holds (a parsed string that spells no label name of the
\* model can be the name of no label of the model's samples).
Spelling ==
    [n \in {"host", "job", "pod", "label1"} |->
        CASE n = "host"   -> <<"h", "o", "s", "t">>
          [] n = "job"    -> <<"j", "o", "b">>
          [] n = "pod"    -> <<"p", "o", "d">>
          [] n = "label1" -> <<"l", "a", "b", "e", "l", "1">>]

NamesOf(strs) == {n \in DOMAIN Spelling : Spelling[n] \in strs}

\* the index of the first sep in str, 0 if there is none (strings.Index)
Index(str, sep) ==
    IF \E j \in 1..Len(str) : str[j] = sep
    THEN CHOOSE j \in 1..Len(str) :
            str[j] = sep /\ \A k \in 1..(j - 1) : str[k] # sep
    ELSE 0

\* strings.Split(str, sep) for a separator of one character
RECURSIVE Split(_, _)
Split(str, sep) ==
    LET k == Index(str, sep)
    IN  IF k = 0 THEN <<str>>
        ELSE <<SubSeq(str, 1, k - 1)>> \o Split(SubSeq(str, k + 1, Len(str)), sep)

\* strings.SplitN(str, sep, 2)
SplitN2(str, sep) ==
    LET k == Index(str, sep)
    IN  IF k = 0 THEN <<str>>
        ELSE <<SubSeq(str, 1, k - 1), SubSeq(str, k + 1, Len(str))>>

\* keyValMustParse: fatal stands for its log.Fatalf
keyValMustParse(str) ==
    LET kv == SplitN2(str, "=")
    IN  IF Len(kv) # 2 THEN [fatal |-> TRUE, key |-> <<>>, val |-> <<>>]
        ELSE [fatal |-> FALSE, key |-> kv[1], val |-> kv[2]]

stringSliceToSet(slice) == Range(slice)

\* the loop of dimensionMatcherListMustParse over the sublists.  glob.Compile
\* gives a matcher for every pattern of literal characters and "*"; the
\* matcher is held as its pattern.
RECURSIVE parseSublists(_, _)
parseSublists(sublists, matcherList) ==
    IF sublists = <<>> THEN [fatal |-> FALSE, list |-> matcherList]
    ELSE LET kv == keyValMustParse(Head(sublists))
             dims == Split(kv.val, ",")
             g == MatcherWithStringSet(kv.key, stringSliceToSet(dims))
         IN  IF kv.fatal \/ Len(dims) = 0
             THEN [fatal |-> TRUE, list |-> matcherList]
             ELSE parseSublists(Tail(sublists), Append(matcherList, g))

dimensionMatcherListMustParse(str) == parseSublists(Split(str, ";"), <<>>)

\* the example of the help of -exclude_dimensions_for_metrics:
\* flink_jobmanager=job,host;zk_up=host,pod;
flagExample ==
    << "f", "l", "i", "n", "k", "_", "j", "o", "b", "m", "a", "n",
       "a", "g", "e", "r", "=", "j", "o", "b", ",", "h", "o", "s",
       "t", ";", "z", "k", "_", "u", "p", "=", "h", "o", "s", "t",
       ",", "p", "o", "d", ";" >>

\* the example without its last semicolon
flagExampleNoSemicolon == SubSeq(flagExample, 1, Len(flagExample) - 1)

\* h_*=host,label1
flagHostRule ==
    << "h", "_", "*", "=", "h", "o", "s", "t", ",", "l", "a", "b",
       "e", "l", "1" >>

\* h_a (no "=")
flagNoEquals == <<"h", "_", "a">>

\* the values of the two flags; the empty string is a flag not given
FlagValues ==
    { <<>>, flagExample, flagExampleNoSemicolon, flagHostRule, flagNoEquals }

ArgValues == [exclude : FlagValues, include : FlagValues]

flink_jobmanager ==
    << "f", "l", "i", "n", "k", "_", "j", "o", "b", "m", "a", "n",
       "a", "g", "e", "r" >>

zk_up == <<"z", "k", "_", "u", "p">>

---------------------------------------------------------------------------
(* The Run loop *)

\* neither of the two flags is given
NoArgs == [exclude |-> <<>>, include |-> <<>>]

NoSummary == [logged |-> FALSE, count |-> 0, err |-> FALSE]

InitWith(configs) ==
    /\ cfg \in configs
    /\ pc = "idle"
    /\ ctxDone = FALSE
    /\ vec = <<>>
    /\ i = 1
    /\ data = <<>>
    /\ count = 0
    /\ flushed = <<>>
    /\ summary = NoSummary
    /\ ticks = 0
    /\ fetcher = "none"
    /\ body = <<>>
    /\ mfChan = <<>>
    /\ metricFamilies = <<>>
    /\ fatal = "none"
    /\ args = NoArgs

Init == InitWith(CoreConfigs)

InitT == InitWith(Configs)

\* the request leaves out the first data point of the batch
flush_withoutFirst(d, ok) ==
    IF Len(d) > 0 THEN Append(flushed, [batch |-> Tail(d), ok |-> ok]) ELSE flushed

\* a request is made for an empty batch too
flush_emptyToo(d, ok) == Append(flushed, [batch |-> d, ok |-> ok])

\* flush: a PutMetricData request for a non-empty batch, which succeeds or not
flush(d, ok) ==
    IF Len(d) > 0 THEN Append(flushed, [batch |-> d, ok |-> ok]) ELSE flushed

\* case <-ticker.C: the scrape is fetched and decoded, ExtractSamples gives
\* vec, and publishMetricsToCloudWatch starts with an empty batch
StartCycle(samples) ==
    /\ pc = "idle"
    /\ pc' = "publish"
    /\ vec' = samples
    /\ i' = 1
    /\ data' = <<>>
    /\ count' = 0
    /\ flushed' = <<>>
    /\ summary' = NoSummary
    /\ UNCHANGED <<cfg, ctxDone, ticks, fetchVars, fatal, args>>

Tick == \E samples \in Scrapes : StartCycle(samples)

\* case <-ticker.C when ExtractSamples fails: publishMetricsToCloudWatch
\* returns (0, err) before anything is sent, and Run logs both
ExtractError ==
    /\ pc = "idle"
    /\ vec' = <<>>
    /\ i' = 1
    /\ data' = <<>>
    /\ count' = 0
    /\ flushed' = <<>>
    /\ summary' = [logged |-> TRUE, count |-> 0, err |-> TRUE]
    /\ UNCHANGED <<cfg, pc, ctxDone, ticks, fetchVars, fatal, args>>

TickT == \E samples \in SingleScrapes \cup PairScrapes : StartCycle(samples)

\* where publishMetricsToCloudWatch goes after the flush of a full batch: the
\* failure is returned to Run
afterLoopFlush_abort(ok) == IF ok THEN "publish" ELSE "idle"

\* where publishMetricsToCloudWatch goes after the flush of a full batch: an
\* error is logged and the loop goes on
afterLoopFlush(ok) == "publish"

\* one iteration of "for _, s := range vec"
Loop ==
    /\ pc = "publish"
    /\ i <= Len(vec)
    /\ UNCHANGED <<ticks, fetchVars, fatal, args>>
    /\ LET s    == vec[i]
           name == getName(s.Metric)
       IN  IF shouldIgnoreMetric(cfg, name)
           THEN /\ i' = i + 1
                /\ UNCHANGED <<cfg, pc, ctxDone, vec, data, count, flushed, summary>>
           ELSE \E order1, order2 \in MapOrders(cfg.additionalDimensions) :
                \E ok \in BOOLEAN :
                  LET r == appendDatum(data, name, s, cfg, order1, order2)
                  IN  IF r.panic
                      THEN /\ pc' = "panicked"
                           /\ UNCHANGED <<cfg, ctxDone, vec, i, data, count,
                                          flushed, summary>>
                      ELSE /\ i' = i + 1
                           /\ IF Len(r.data) = batchSize
                              THEN /\ count' = count + batchSize
                                   /\ flushed' = flush(r.data, ok)
                                   /\ data' = <<>>
                                   /\ pc' = afterLoopFlush(ok)
                              ELSE /\ data' = r.data
                                   /\ UNCHANGED <<pc, count, flushed>>
                           /\ UNCHANGED <<cfg, ctxDone, vec, summary>>

\* after the loop: the rest is flushed, publishMetricsToCloudWatch returns
\* (count, err) and Run logs them and goes back to its select
Finish ==
    /\ pc = "publish"
    /\ i > Len(vec)
    /\ \E ok \in BOOLEAN :
         /\ count' = count + Len(data)
         /\ flushed' = flush(data, ok)
         /\ summary' = [logged |-> TRUE, count |-> count + Len(data),
                        err |-> Len(data) > 0 /\ ~ok]
    /\ pc' = "idle"
    /\ UNCHANGED <<cfg, ctxDone, vec, i, data, ticks, fetchVars, fatal, args>>

\* the context is cancelled (main's cancel(), on SIGINT or SIGTERM), while
\* the process runs
Cancel ==
    /\ pc \notin {"exited", "main"}
    /\ ~ ctxDone
    /\ ctxDone' = TRUE
    /\ UNCHANGED <<cfg, pc, vec, i, data, count, flushed, summary,
                   ticks, fetchVars, fatal, args>>

\* the Done case is taken while Run is in the middle of a cycle
doneCaseReady_anywhere(p, done) == p \in {"idle", "fetch", "publish"} /\ done

\* the case <-ctx.Done() of Run's select can be taken: Run is at the select
\* and the context is cancelled
doneCaseReady(p, done) == p = "idle" /\ done

\* case <-ctx.Done(): Run returns
Stop ==
    /\ doneCaseReady(pc, ctxDone)
    /\ pc' = "stopped"
    /\ UNCHANGED <<cfg, ctxDone, vec, i, data, count, flushed, summary,
                   ticks, fetchVars, fatal, args>>

\* what main makes of the value of one of the two flags: the flag not
\* given leaves the list nil
parseFlag(str) ==
    IF str # <<>> THEN dimensionMatcherListMustParse(str)
    ELSE [fatal |-> FALSE, list |-> <<>>]

\* the rules of a parsed list, their dimension names as label names
RulesOf(list) ==
    [j \in 1..Len(list) |->
        MatcherWithStringSet(list[j].Matcher, NamesOf(list[j].Set))]

\* main up to NewBridge: the flags are parsed, the Config is filled and the
\* Bridge is made; a flag that cannot be parsed, a required flag that is
\* missing or an error of NewBridge ends the process with log.Fatal
ParseFlags ==
    /\ pc = "main"
    /\ LET ex  == parseFlag(args.exclude)
           inc == parseFlag(args.include)
       IN  IF ex.fatal \/ inc.fatal
           THEN /\ pc' = "exited"
                /\ fatal' = "flags"
                /\ cfg' = cfg
           ELSE \/ /\ pc' = "exited"
                   /\ fatal' = "config"
                   /\ cfg' = cfg
                \/ /\ pc' = "server"
                   /\ fatal' = fatal
                   /\ cfg' = [cfg EXCEPT
                          !.excludeDimensionsForMetrics = RulesOf(ex.list),
                          !.includeDimensionsForMetrics = RulesOf(inc.list)]
    /\ UNCHANGED <<ctxDone, vec, i, data, count, flushed, summary,
                   ticks, fetchVars, args>>

\* startHttpServer: the server cannot listen, or its Shutdown fails, and
\* log.Fatalln ends the process
ServerFatal ==
    /\ pc = "server"
    /\ pc' = "exited"
    /\ fatal' = "server"
    /\ UNCHANGED <<cfg, ctxDone, vec, i, data, count, flushed, summary,
                   ticks, fetchVars, args>>

\* startHttpServer returns: <-ctx.Done() has been passed and the server is
\* shut down; main calls bridge.Run(ctx)
ServerReturns ==
    /\ pc = "server"
    /\ ctxDone
    /\ pc' = "idle"
    /\ UNCHANGED <<cfg, ctxDone, vec, i, data, count, flushed, summary,
                   ticks, fetchVars, fatal, args>>

\* the ticker sends a tick; a tick that finds the channel full is dropped
TickerFires ==
    /\ pc \in {"idle", "fetch", "publish"}
    /\ ticks < tickerCap
    /\ ticks' = ticks + 1
    /\ UNCHANGED <<cfg, pc, ctxDone, vec, i, data, count, flushed, summary,
                   fetchVars, fatal, args>>

\* a tick is taken while the cycle of the tick before is in progress
tickCaseReady_anywhere(p, t) == p \in {"idle", "fetch", "publish"} /\ t > 0

\* the case <-ticker.C of Run's select can be taken: Run is at the select
\* and a tick waits in the channel
tickCaseReady(p, t) == p = "idle" /\ t > 0

\* case <-ticker.C: mfChan is made, the goroutine fetchMetricFamilies is
\* started and Run ranges over mfChan
ReceiveTick ==
    /\ tickCaseReady(pc, ticks)
    /\ ticks' = ticks - 1
    /\ pc' = "fetch"
    /\ fetcher' = "connecting"
    /\ body' = <<>>
    /\ mfChan' = <<>>
    /\ metricFamilies' = <<>>
    /\ vec' = <<>>
    /\ i' = 1
    /\ data' = <<>>
    /\ count' = 0
    /\ flushed' = <<>>
    /\ summary' = NoSummary
    /\ UNCHANGED <<cfg, ctxDone, fatal, args>>

\* fetchMetricFamilies / decodeContent: log.Fatal ends the process
FetchFatal ==
    /\ pc = "fetch"
    /\ fetcher = "connecting"
    /\ \E failure \in ScrapeFailures : fatal' = failure
    /\ pc' = "exited"
    /\ UNCHANGED <<cfg, ctxDone, vec, i, data, count, flushed, summary,
                   ticks, fetchVars, args>>

\* decodeContent: the response has status 200 and parseResponse is called
FetchResponse ==
    /\ pc = "fetch"
    /\ fetcher = "connecting"
    /\ fetcher' = "parsing"
    /\ body' \in Bodies
    /\ UNCHANGED <<cfg, pc, ctxDone, vec, i, data, count, flushed, summary,
                   ticks, mfChan, metricFamilies, fatal, args>>

\* parseResponse: the body cannot be decoded, log.Fatalln ends the process
ParseFatal ==
    /\ pc = "fetch"
    /\ fetcher = "parsing"
    /\ fatal' = "decode"
    /\ pc' = "exited"
    /\ UNCHANGED <<cfg, ctxDone, vec, i, data, count, flushed, summary,
                   ticks, fetchVars, args>>

\* parseResponse: ch <- mf
FetchSend ==
    /\ pc = "fetch"
    /\ fetcher = "parsing"
    /\ body # <<>>
    /\ Len(mfChan) < mfChanCap
    /\ mfChan' = Append(mfChan, Head(body))
    /\ body' = Tail(body)
    /\ UNCHANGED <<cfg, pc, ctxDone, vec, i, data, count, flushed, summary,
                   ticks, fetcher, metricFamilies, fatal, args>>

\* fetchMetricFamilies returns: defer close(ch)
FetchClose ==
    /\ pc = "fetch"
    /\ fetcher = "parsing"
    /\ body = <<>>
    /\ fetcher' = "closed"
    /\ UNCHANGED <<cfg, pc, ctxDone, vec, i, data, count, flushed, summary,
                   ticks, body, mfChan, metricFamilies, fatal, args>>

\* one iteration of "for mf := range mfChan"
Receive ==
    /\ pc = "fetch"
    /\ mfChan # <<>>
    /\ metricFamilies' = Append(metricFamilies, Head(mfChan))
    /\ mfChan' = Tail(mfChan)
    /\ UNCHANGED <<cfg, pc, ctxDone, vec, i, data, count, flushed, summary,
                   ticks, fetcher, body, fatal, args>>

\* the range ends as soon as the channel is found empty
rangeEnds_whenEmpty(f, ch) == ch = <<>>

\* "for mf := range mfChan" ends: the channel is closed and nothing is left
\* in it
rangeEnds(f, ch) == f = "closed" /\ ch = <<>>

\* the range over mfChan ends and publishMetricsToCloudWatch starts:
\* ExtractSamples gives vec
Extract ==
    /\ pc = "fetch"
    /\ rangeEnds(fetcher, mfChan)
    /\ vec' = ExtractSamples(metricFamilies)
    /\ pc' = "publish"
    /\ UNCHANGED <<cfg, ctxDone, i, data, count, flushed, summary,
                   ticks, fetchVars, fatal, args>>

\* the range over mfChan ends and ExtractSamples fails:
\* publishMetricsToCloudWatch returns (0, err) and Run logs both
ExtractFails ==
    /\ pc = "fetch"
    /\ rangeEnds(fetcher, mfChan)
    /\ summary' = [logged |-> TRUE, count |-> 0, err |-> TRUE]
    /\ pc' = "idle"
    /\ UNCHANGED <<cfg, ctxDone, vec, i, data, count, flushed,
                   ticks, fetchVars, fatal, args>>

Next == Tick \/ ExtractError \/ Loop \/ Finish \/ Cancel \/ Stop

Spec == Init /\ [][Next]_vars

NextT == TickT \/ ExtractError \/ Loop \/ Finish

SpecT == InitT /\ [][NextT]_vars

\* Run with its ticker and its fetch goroutine
NextR ==
    \/ ParseFlags \/ ServerFatal \/ ServerReturns
    \/ TickerFires \/ ReceiveTick
    \/ FetchFatal \/ FetchResponse \/ ParseFatal \/ FetchSend \/ FetchClose
    \/ Receive \/ Extract \/ ExtractFails
    \/ Loop \/ Finish \/ Cancel \/ Stop

\* the program is started: main is about to parse its flags
InitMain ==
    /\ cfg = BaseConfig
    /\ pc = "main"
    /\ ctxDone = FALSE
    /\ vec = <<>>
    /\ i = 1
    /\ data = <<>>
    /\ count = 0
    /\ flushed = <<>>
    /\ summary = NoSummary
    /\ ticks = 0
    /\ fetcher = "none"
    /\ body = <<>>
    /\ mfChan = <<>>
    /\ metricFamilies = <<>>
    /\ fatal = "none"
    /\ args \in ArgValues

\* the program is started, or Run is called on a Bridge with a context that
\* is not cancelled
InitR == InitMain \/ InitWith(CoreConfigs)

SpecR == InitR /\ [][NextR]_vars

\* Scheduling.  The goroutines that can run do run: Run receives from
\* mfChan, ends its range, goes through its samples and finishes the cycle
\* (every PutMetricData request returns, the http client of the Bridge has
\* a Timeout); the fetch goroutine, once it has a response, sends and
\* closes.  The select of Run chooses at random among its ready cases, so a
\* Done case that is ready again and again is taken.  Nothing makes the
\* scrape request return: fetchMetricFamilies builds an http.Client without
\* a Timeout and without a context, so FetchResponse and FetchFatal have no
\* fairness condition.
Fairness ==
    /\ WF_vars(Receive)
    /\ WF_vars(Extract \/ ExtractFails)
    /\ WF_vars(Loop)
    /\ WF_vars(Finish)
    /\ WF_vars(FetchSend)
    /\ WF_vars(FetchClose)
    /\ WF_vars(ServerReturns \/ ServerFatal)
    /\ SF_vars(Stop)

SpecL == InitR /\ [][NextR]_vars /\ Fairness

---------------------------------------------------------------------------
(* What a cycle sent *)

RECURSIVE Flatten(_)
Flatten(batches) ==
    IF batches = <<>> THEN <<>>
    ELSE Head(batches).batch \o Flatten(Tail(batches))

\* the data points of the PutMetricData requests of the cycle, in order
Sent == Flatten(flushed)

\* Run is in its select, or has returned: no cycle is in progress
AtRest == pc \in {"idle", "stopped"}

\* the cycle of vec has run to its end
CycleDone == summary.logged

Accepted(s) == ~ shouldIgnoreMetric(cfg, getName(s.Metric))

\* the data points a scrape gives when no flush interferes, each sample's
\* additional dimensions in sorted key order
RECURSIVE Transformed(_)
Transformed(samples) ==
    IF samples = <<>> THEN <<>>
    ELSE LET s == Head(samples)
             order == SortStrings(DOMAIN cfg.additionalDimensions)
         IN  (IF Accepted(s)
              THEN appendDatum(<<>>, getName(s.Metric), s, cfg, order, order).data
              ELSE <<>>) \o Transformed(Tail(samples))

---------------------------------------------------------------------------
(* Claims *)

\* C1: every PutMetricData request a cycle issues carries at least 1 and at
\* most batchSize data points.
C1_BatchWithinBatchSize ==
    \A j \in 1..Len(flushed) :
        /\ Len(flushed[j].batch) >= 1
        /\ Len(flushed[j].batch) <= batchSize

\* C2: a metric name matched by an exclude pattern is ignored by
\* shouldIgnoreMetric and no data point of that name is in the batch being
\* filled or in a flushed batch, whatever the include patterns are.
C2_ExcludedNeverPublished ==
    /\ \A name \in MetricNames :
          anyPatternMatches(cfg.excludeMetrics, name) => shouldIgnoreMetric(cfg, name)
    /\ \A j \in 1..Len(Sent) :
          ~ anyPatternMatches(cfg.excludeMetrics, Sent[j].MetricName)
    /\ \A j \in 1..Len(data) :
          ~ anyPatternMatches(cfg.excludeMetrics, data[j].MetricName)

\* a finished cycle whose sample matches an exclude and an include pattern
\* and has a valid value: nothing was sent
C2_Witness ==
    /\ CycleDone
    /\ Len(vec) = 1
    /\ anyPatternMatches(cfg.excludeMetrics, getName(vec[1].Metric))
    /\ anyPatternMatches(cfg.includeMetrics, getName(vec[1].Metric))
    /\ validValue(vec[1].Value)
    /\ Sent = <<>>

\* C3: a metric name matched by no exclude pattern is accepted iff the
\* include list is empty or one of its patterns matches the name: of a
\* finished cycle, a sample with such a name and a valid value has data
\* points in the requests sent iff that holds.
C3_IncludeDecides ==
    /\ \A name \in MetricNames :
          ~ anyPatternMatches(cfg.excludeMetrics, name) =>
            (~ shouldIgnoreMetric(cfg, name)
               <=> (Len(cfg.includeMetrics) = 0
                      \/ \E j \in 1..Len(cfg.includeMetrics) :
                            GlobMatch(cfg.includeMetrics[j], name)))
    /\ CycleDone =>
         \A k \in 1..Len(vec) :
            LET name == getName(vec[k].Metric)
            IN  (/\ ~ anyPatternMatches(cfg.excludeMetrics, name)
                 /\ validValue(vec[k].Value))
                => ((\E j \in 1..Len(Sent) : Sent[j].MetricName = name)
                      <=> (Len(cfg.includeMetrics) = 0
                             \/ \E j \in 1..Len(cfg.includeMetrics) :
                                   GlobMatch(cfg.includeMetrics[j], name)))

\* a finished cycle whose sample matches neither list, with include patterns
\* configured: it was rejected
C3_Witness ==
    /\ CycleDone
    /\ Len(vec) = 1
    /\ Len(cfg.includeMetrics) > 0
    /\ ~ anyPatternMatches(cfg.excludeMetrics, getName(vec[1].Metric))
    /\ ~ anyPatternMatches(cfg.includeMetrics, getName(vec[1].Metric))
    /\ validValue(vec[1].Value)
    /\ Sent = <<>>

\* C4: a failed flush does not abort the cycle: whenever no cycle is in
\* progress the range loop has gone through every sample of the scrape and
\* the requests issued, failed ones included, carry every data point of the
\* scrape's accepted samples.
C4_FlushFailureDoesNotAbort ==
    AtRest => /\ i = Len(vec) + 1
              /\ Sent = Transformed(vec)

\* a finished cycle in which a flush failed and a later batch was flushed
C4_Witness ==
    /\ CycleDone
    /\ \E j \in 1..Len(flushed) : ~ flushed[j].ok /\ j < Len(flushed)

NumAdditional == Cardinality(DOMAIN cfg.additionalDimensions)

\* the names of the dimensions of a data point that come from labels: all
\* but the global extra dimensions appended at the end
LabelDimensionNames(datum) ==
    [j \in 1..(Len(datum.Dimensions) - NumAdditional) |-> datum.Dimensions[j].Name]

\* the eligible label names of a metric, sorted: not __name__, not a control
\* label, and surviving the dimension policy of the metric
EligibleNames(m) ==
    LET includeSet == getMatchingSet(cfg.includeDimensionsForMetrics, getName(m))
        excludeSet == getMatchingSet(cfg.excludeDimensionsForMetrics, getName(m))
    IN  SortStrings({n \in DOMAIN m \ {MetricNameLabel, cwHighResLabel, cwUnitLabel} :
                        /\ (excludeSet.isNil \/ n \notin excludeSet.keys)
                        /\ (includeSet.isNil \/ n \in includeSet.keys)})

\* C6: for a sample with more than 10 - k eligible labels the label-derived
\* dimension names of its data point are those of the lexicographically
\* first 10 - k eligible names whose value is not empty: truncation comes
\* before empty values are dropped.
C6_TruncateThenDropEmpty ==
    (/\ CycleDone
     /\ Len(vec) = 1
     /\ Len(Sent) >= 1
     /\ NumAdditional <= maxDimensions
     /\ Len(EligibleNames(vec[1].Metric)) > maxDimensions - NumAdditional)
    => LabelDimensionNames(Sent[1])
         = SelectSeq(Take(EligibleNames(vec[1].Metric), maxDimensions - NumAdditional),
                     LAMBDA n : vec[1].Metric[n] # "")

\* the sizes of the requests of a cycle
BatchSizes == [j \in 1..Len(flushed) |-> Len(flushed[j].batch)]

\* C7: a cycle of N data points makes floor(N/batchSize) requests of exactly
\* batchSize points, followed by one of N mod batchSize points when that is
\* not zero.
C7_BatchesOfBatchSizeThenRemainder ==
    CycleDone =>
      LET N == Len(Sent)
          full == N \div batchSize
          rest == N % batchSize
      IN  BatchSizes = [j \in 1..(full + IF rest # 0 THEN 1 ELSE 0) |->
                           IF j <= full THEN batchSize ELSE rest]

\* C8: a data point never carries NaN, an infinity or a non-zero value of
\* magnitude at most 2^-260 or at least 2^260, and a sample of value zero
\* that is accepted yields a data point.
C8_InvalidValuesDropped ==
    /\ \A d \in Range(Sent) \cup Range(data) :
          /\ d.Value.kind \in {"zero", "pow2"}
          /\ d.Value.kind = "pow2" =>
               /\ d.Value.exp > valueTooSmallExp
               /\ d.Value.exp < valueTooLargeExp
    /\ CycleDone =>
         \A k \in 1..Len(vec) :
            (vec[k].Value.kind = "zero" /\ Accepted(vec[k]))
            => \E d \in Range(Sent) :
                  d.MetricName = getName(vec[k].Metric) /\ d.Value = vec[k].Value

\* a finished cycle of an accepted sample whose value is +Inf, with a
\* substitution map that names one of its labels: nothing was sent
C8_Witness ==
    /\ CycleDone
    /\ Len(vec) = 1
    /\ Accepted(vec[1])
    /\ vec[1].Value = Float("inf", FALSE, 0)
    /\ "host" \in DOMAIN vec[1].Metric
    /\ "host" \in DOMAIN cfg.replaceDimensions
    /\ Sent = <<>>

\* C9: with a non-empty substitution map, a valid accepted sample with a
\* published label whose name is in the map yields exactly two data points,
\* the primary first: the primary keeps the label values, the second has the
\* same dimension names in the same order, the value of every mapped name
\* replaced by its substitute and every other value unchanged, and the other
\* fields of the two are equal.
C9_SubstitutedSecondDatum ==
    (/\ CycleDone
     /\ Len(vec) = 1
     /\ DOMAIN cfg.replaceDimensions # {}
     /\ Len(Sent) >= 1
     /\ \E j \in 1..Len(LabelDimensionNames(Sent[1])) :
           Sent[1].Dimensions[j].Name \in DOMAIN cfg.replaceDimensions)
    => /\ Len(Sent) = 2
       /\ LET d1 == Sent[1]
              d2 == Sent[2]
          IN  /\ \A j \in 1..Len(LabelDimensionNames(d1)) :
                    d1.Dimensions[j].Value = vec[1].Metric[d1.Dimensions[j].Name]
              /\ Len(d2.Dimensions) = Len(d1.Dimensions)
              /\ \A j \in 1..Len(d1.Dimensions) :
                    /\ d2.Dimensions[j].Name = d1.Dimensions[j].Name
                    /\ d2.Dimensions[j].Value =
                         IF d1.Dimensions[j].Name \in DOMAIN cfg.replaceDimensions
                         THEN cfg.replaceDimensions[d1.Dimensions[j].Name]
                         ELSE d1.Dimensions[j].Value
              /\ d2.MetricName = d1.MetricName
              /\ d2.Value = d1.Value
              /\ d2.Timestamp = d1.Timestamp
              /\ d2.StorageResolution = d1.StorageResolution
              /\ d2.Unit = d1.Unit

\* C10: the storage resolution of a published data point is 1 if its sample
\* carries the __cw_high_res label or the force-high-resolution flag is set,
\* and 60 otherwise.
C10_ResolutionFromLabelOrFlag ==
    (CycleDone /\ Len(vec) = 1) =>
      \A d \in Range(Sent) :
         d.StorageResolution =
            IF cwHighResLabel \in DOMAIN vec[1].Metric \/ cfg.forceHighRes
            THEN 1 ELSE 60

\* the label names of a sample are only the metric name
NameOnly(s) == DOMAIN s.Metric = {MetricNameLabel}

\* C11: the data point of a sample whose only label is the metric name has
\* an empty dimension list, under every configuration, global extra
\* dimensions included.
C11_NameOnlyHasNoDimensions ==
    (CycleDone /\ \A k \in 1..Len(vec) : NameOnly(vec[k]))
    => \A d \in Range(Sent) : d.Dimensions = <<>>

DimensionNames(datum) ==
    [j \in 1..Len(datum.Dimensions) |-> datum.Dimensions[j].Name]

\* C13: no dimension name occurs twice in a data point.
C13_DimensionNamesDistinct ==
    \A d \in Range(Sent) \cup Range(data) :
        \A j, k \in 1..Len(d.Dimensions) :
            d.Dimensions[j].Name = d.Dimensions[k].Name => j = k

\* C18: within a cycle the batches passed to flush, concatenated in flush
\* order and followed by the batch being filled, are the data points the
\* transformer gave for the samples gone through so far, in sample order;
\* at the end of the cycle the flushed batches are the data points of the
\* whole scrape.
C18_BatchesConcatenateToTransformerOutput ==
    /\ pc = "publish" => Sent \o data = Transformed(Take(vec, i - 1))
    /\ CycleDone => Sent = Transformed(vec)

\* a finished cycle of more than batchSize data points, sent in several
\* requests
C18_Witness ==
    /\ CycleDone
    /\ Len(flushed) >= 2
    /\ Len(Sent) > batchSize
    /\ \E j, k \in 1..Len(Sent) : Sent[j] # Sent[k]

C14_OneCycleAtATime ==
    /\ [](fetcher \in {"connecting", "parsing"} => pc \in {"fetch", "exited"})
    /\ [][ticks' < ticks =>
            /\ pc = "idle"
            /\ fetcher \in {"none", "closed"}
            /\ mfChan = <<>>
            /\ (fetcher = "closed" => summary.logged)]_vars

\* a tick has been sent while a cycle that has already flushed a batch is
\* still going through its samples
C14_Witness ==
    /\ pc = "publish"
    /\ ticks = 1
    /\ Len(flushed) >= 1
    /\ i <= Len(vec)

\* C15: a cancelled context does not end a cycle in flight: from the fetch
\* or the publication Run never goes to its return, and when Run has
\* returned the last cycle, if there was one, has gone through all its
\* samples, has sent all their data points and has logged its summary.
C15_CancelDoesNotInterruptCycle ==
    /\ [](pc = "stopped" =>
            /\ ctxDone
            /\ fetcher = "none" \/ summary.logged
            /\ i = Len(vec) + 1
            /\ Sent = Transformed(vec))
    /\ [][(ctxDone /\ pc \in {"fetch", "publish"}) => pc' # "stopped"]_vars

\* the context is cancelled and the cycle in flight, which has flushed a
\* batch, goes on
C15_Witness ==
    /\ ctxDone
    /\ pc = "publish"
    /\ Len(flushed) >= 1
    /\ 1 < i /\ i <= Len(vec)
    /\ ticks = 0

\* C16: a failure of the scrape does not end the process.
C16_ScrapeFailureKeepsProcessRunning ==
    ~ (pc = "exited" /\ fatal \in ScrapeFailures)

\* C17: main calls Run while the context is not cancelled.
C17_RunEnteredBeforeCancel ==
    [][(pc = "server" /\ pc' = "idle") => ~ ctxDone']_vars

\* C19: the example value of the flag help, with its last semicolon, is
\* parsed without a fatal error into two rules, flink_jobmanager with
\* {job, host} and zk_up with {host, pod}, in that order.
C19_FlagExampleParsed ==
    (args.exclude = flagExample /\ args.include = <<>> /\ pc # "main") =>
       /\ fatal # "flags"
       /\ dimensionMatcherListMustParse(args.exclude) =
             [fatal |-> FALSE,
              list |-> << MatcherWithStringSet(flink_jobmanager,
                              {Spelling["job"], Spelling["host"]}),
                          MatcherWithStringSet(zk_up,
                              {Spelling["host"], Spelling["pod"]}) >>]
       /\ pc # "exited" =>
             cfg.excludeDimensionsForMetrics =
                << MatcherWithStringSet(flink_jobmanager, {"job", "host"}),
                   MatcherWithStringSet(zk_up, {"host", "pod"}) >>

\* C21: the batches of a cycle never hold two equal data points derived
\* from the same sample.
C21_NoDuplicateDataPoints ==
    (CycleDone /\ Len(vec) = 1) =>
       \A j, k \in 1..Len(Sent) : Sent[j] = Sent[k] => j = k

\* the data points of the flushed batches whose request succeeded
RECURSIVE Published(_)
Published(batches) ==
    IF batches = <<>> THEN <<>>
    ELSE (IF Head(batches).ok THEN Head(batches).batch ELSE <<>>)
         \o Published(Tail(batches))

\* C23: the count of the summary of a cycle is the number of data points of
\* the batches whose flush succeeded.
C23_CountIsPublished ==
    CycleDone => summary.count = Len(Published(flushed))

\* C27: with a non-empty substitution map every accepted sample with a valid
\* value gives two data points, also a sample without any dimension.
C27_SecondDatumAlways ==
    (/\ CycleDone
     /\ Len(vec) = 1
     /\ DOMAIN cfg.replaceDimensions # {}
     /\ Accepted(vec[1])
     /\ validValue(vec[1].Value))
    => Len(Sent) = 2

\* the rules of a list whose glob matches a name, by position
MatchingRules(rules, name) ==
    {j \in 1..Len(rules) : GlobMatch(rules[j].Matcher, name)}

\* the set of the first rule of the list that matches the name, no set if
\* none does
FirstMatch(rules, name) ==
    IF MatchingRules(rules, name) = {} THEN NilSet
    ELSE LET first == CHOOSE j \in MatchingRules(rules, name) :
                         \A k \in MatchingRules(rules, name) : j <= k
         IN  StringSet(rules[first].Set)

\* C25: for every metric name getMatchingSet gives the set of the first
\* rule, in configured order, whose glob matches the name, and no set when
\* no rule matches; the include list and the exclude list are looked up
\* each on its own.
C25_FirstMatchingRule ==
    \A name \in MetricNames :
       /\ getMatchingSet(cfg.includeDimensionsForMetrics, name)
            = FirstMatch(cfg.includeDimensionsForMetrics, name)
       /\ getMatchingSet(cfg.excludeDimensionsForMetrics, name)
            = FirstMatch(cfg.excludeDimensionsForMetrics, name)

\* a finished cycle of a sample whose name is matched by two include rules
\* with different sets: the dimensions sent are those of the first rule
C25_Witness ==
    /\ CycleDone
    /\ Len(vec) = 1
    /\ Cardinality(MatchingRules(cfg.includeDimensionsForMetrics,
                                 getName(vec[1].Metric))) = 2
    /\ cfg.includeDimensionsForMetrics[1].Set # cfg.includeDimensionsForMetrics[2].Set
    /\ cfg.excludeDimensionsForMetrics = <<>>
    /\ Len(Sent) >= 1
    /\ Range(DimensionNames(Sent[1])) = cfg.includeDimensionsForMetrics[1].Set

\* C26: shouldIncludeDimension holds of a label of a sample iff the label
\* is none of __name__, __cw_high_res and __cw_unit, is not in the
\* exclude-set of the metric and, when the metric has an include-set, is in
\* it; and only such labels are published as dimensions.
C26_EligibleLabels ==
    (Len(vec) = 1) =>
      LET m == vec[1].Metric
          includeSet == FirstMatch(cfg.includeDimensionsForMetrics, getName(m))
          excludeSet == FirstMatch(cfg.excludeDimensionsForMetrics, getName(m))
      IN  /\ \A n \in DOMAIN m :
                shouldIncludeDimension(n, includeSet, excludeSet)
                <=> /\ n \notin {MetricNameLabel, cwHighResLabel, cwUnitLabel}
                    /\ excludeSet.isNil \/ n \notin excludeSet.keys
                    /\ includeSet.isNil \/ n \in includeSet.keys
          /\ \A d \in Range(Sent) \cup Range(data) :
                \A j \in 1..Len(LabelDimensionNames(d)) :
                   /\ d.Dimensions[j].Name
                        \notin {MetricNameLabel, cwHighResLabel, cwUnitLabel}
                   /\ excludeSet.isNil \/ d.Dimensions[j].Name \notin excludeSet.keys
                   /\ includeSet.isNil \/ d.Dimensions[j].Name \in includeSet.keys

\* a finished cycle of a sample with the labels host and __cw_unit, under an
\* include-set that names both and an exclude-set that names host: the data
\* point sent has no dimension
C26_Witness ==
    /\ CycleDone
    /\ Len(vec) = 1
    /\ {"host", cwUnitLabel} \subseteq DOMAIN vec[1].Metric
    /\ LET includeSet == FirstMatch(cfg.includeDimensionsForMetrics,
                                    getName(vec[1].Metric))
           excludeSet == FirstMatch(cfg.excludeDimensionsForMetrics,
                                    getName(vec[1].Metric))
       IN  /\ {"host", cwUnitLabel} \subseteq includeSet.keys
           /\ "host" \in excludeSet.keys
    /\ Len(Sent) >= 1
    /\ Sent[1].Dimensions = <<>>

\* C30: a cycle none of whose samples gives a data point makes no
\* PutMetricData request, reports the count 0 and logs no error.
C30_EmptyCycleIsNoError ==
    [][(pc = "publish" /\ pc' = "idle" /\ Transformed(vec) = <<>>) =>
          /\ flushed' = <<>>
          /\ summary'.logged
          /\ summary'.count = 0
          /\ ~ summary'.err]_vars

\* a finished cycle whose scrape held a sample that was filtered out and an
\* accepted sample of invalid value: nothing was sent, the count is 0 and
\* there is no error
C30_Witness ==
    /\ CycleDone
    /\ \E j, k \in 1..Len(vec) :
          /\ ~ Accepted(vec[j])
          /\ Accepted(vec[k]) /\ ~ validValue(vec[k].Value)
    /\ flushed = <<>>
    /\ summary.count = 0
    /\ ~ summary.err

\* the families of the response of the cycle, in order: those Run has
\* received, those in the channel, those not yet sent
InTransit == metricFamilies \o mfChan \o body

\* C22: the channel is closed only after the last family is sent and
\* nothing is sent after that; between the response and the end of the
\* range every send and every receive leaves the families in order, none
\* lost and none twice; and publishMetricsToCloudWatch runs only with the
\* channel closed and empty, on exactly the families received.
C22_ChannelHandOff ==
    /\ [](fetcher = "closed" => body = <<>>)
    /\ []((pc = "publish" /\ fetcher # "none") =>
             /\ fetcher = "closed"
             /\ mfChan = <<>>
             /\ vec = ExtractSamples(metricFamilies))
    /\ [][(pc = "fetch" /\ pc' = "fetch" /\ fetcher \in {"parsing", "closed"})
            => InTransit' = InTransit]_vars
    /\ [][(fetcher = "closed" /\ ~ (ticks' < ticks))
            => fetcher' = "closed" /\ Len(mfChan') <= Len(mfChan)]_vars

\* publishMetricsToCloudWatch runs on two different families that went
\* through the channel
C22_Witness ==
    /\ pc = "publish"
    /\ fetcher = "closed"
    /\ Len(metricFamilies) >= 2
    /\ metricFamilies[1] # metricFamilies[2]
    /\ vec = metricFamilies[1] \o metricFamilies[2]

\* C29: with the context cancelled no tick is taken from the ticker's
\* channel: no new cycle starts.
C29_NoCycleAfterCancel ==
    [][ctxDone => ~ (ticks' < ticks)]_vars

\* C24: a cycle that has started comes to its end: Run is back at its
\* select (a process ended by log.Fatal counts as an ended cycle too).
C24_CycleTerminates ==
    (pc \in {"fetch", "publish"}) ~> (pc \in {"idle", "exited"})

\* C28: once the context is cancelled and Run is at its select, Run
\* returns (or the process has ended); and after Run has returned nothing
\* is fetched or published any more.
C28_StoppedIsReachedAndTerminal ==
    /\ (ctxDone /\ pc = "idle") ~> (pc \in {"stopped", "exited"})
    /\ [][pc = "stopped" =>
            /\ pc' = "stopped"
            /\ UNCHANGED <<fetchVars, vec, i, data, count, flushed, summary,
                           ticks>>]_vars

===========================================================================
